---- MODULE Spec2Model ----
(***************************************************************************)
(* State-machine model of color-extractor-js: a Palette (a map from packed *)
(* 24-bit colors to pixel counts) and one ColorExtractor instance built on *)
(* it.  The extractor owns a cached salience ranking (sortedColors) and a  *)
(* bounded RGB->Lab cache (labCache); extract() is an async method with    *)
(* suspension points at the batch yields of the ranking pass and at the    *)
(* await of initialize().                                                  *)
(*                                                                         *)
(* Numbers: Lab coordinates are IEEE doubles in the code.  Here they are   *)
(* fixed-point integers in units of 1/100; a distance is kept as its      *)
(* square so that no square root of a distance is needed.                  *)
(***************************************************************************)
EXTENDS Integers, Sequences, FiniteSets, TLC

(***************************************************************************)
(* Bounds of the model.                                                    *)
(***************************************************************************)
MaxPalette == 3      \* unique colors in the palette
MaxColorCount == 4   \* largest colorCount passed to extract
MaxNegLimit == 2     \* the merge pass is tried with limits down to -MaxNegLimit

\* Pixel counts a palette entry may carry.
Counts == {1, 2}

\* Option values tried for maxCacheSize and batchSize, next to the defaults.
SmallCacheSizes == {1, 2}
SmallBatchSizes == {1, 2}

\* An optional value: NULL, or Some(x) holding x.
NULL == <<>>
Some(x) == <<x>>

(***************************************************************************)
(* Program constants.                                                      *)
(***************************************************************************)
DEFAULT_OPTIONS == [useCache |-> TRUE, maxCacheSize |-> 10000, batchSize |-> 1000]
gridSize == 20

(***************************************************************************)
(* The packed colors the palettes are drawn from.  0xB81090 and 0xD860A0   *)
(* share the grid bucket (2,9,5) at distance 26.48: below 100/3, not below *)
(* 100/4.  0x00FF00 and 0x000000 lie in buckets of their own; 0x000000 has *)
(* chroma 0.                                                               *)
(***************************************************************************)
Universe == {12062864, 14180512, 65280, 0}

\* The colors the merge pass is tried on by itself: Universe and two colors
\* at distance 17.86 on either side of a bucket boundary, 0xFF0000 in
\* (2,10,9) and 0xD00000 in (2,9,9).
MergeUniverse == Universe \cup {16711680, 13631488}

Lab(L, a, b) == [L |-> L, a |-> a, b |-> b]

\* convertToLab: the sRGB -> XYZ -> Lab pipeline evaluated in double
\* arithmetic on each color of MergeUniverse, rounded to 1/100.
convertToLab(color) ==
    CASE color = 12062864 -> Lab(4212, 6979, -2620)
      [] color = 14180512 -> Lab(5757, 5397, -1162)
      [] color = 65280    -> Lab(8773, -8618, 8318)
      [] color = 0        -> Lab(0, 0, 0)
      [] color = 16711680 -> Lab(5324, 8009, 6720)
      [] color = 13631488 -> Lab(4338, 6869, 5763)

(***************************************************************************)
(* Arithmetic helpers.                                                     *)
(***************************************************************************)
Min(x, y) == IF x <= y THEN x ELSE y
Max(x, y) == IF x >= y THEN x ELSE y
Abs(x) == IF x < 0 THEN -x ELSE x

\* Math.sqrt on a non-negative integer, rounded down: the largest r with
\* r * r <= n, by bisection on [lo, hi).
RECURSIVE SqrtBetween(_, _, _)
SqrtBetween(n, lo, hi) ==
    IF hi - lo <= 1 THEN lo
    ELSE LET mid == (lo + hi) \div 2
         IN  IF mid * mid <= n THEN SqrtBetween(n, mid, hi)
                               ELSE SqrtBetween(n, lo, mid)

Sqrt(n) == SqrtBetween(n, 0, 46341)

\* Array.prototype.sort with the comparator (a, b) => b.key - a.key: a
\* stable sort by key, largest first.  Insert places x behind every element
\* whose key is at least x.key.
Insert(x, t) ==
    LET n == Cardinality({i \in 1..Len(t) : t[i].key >= x.key})
    IN  SubSeq(t, 1, n) \o <<x>> \o SubSeq(t, n + 1, Len(t))

RECURSIVE SortDesc(_)
SortDesc(s) ==
    IF s = <<>> THEN <<>>
    ELSE Insert(s[Len(s)], SortDesc(SubSeq(s, 1, Len(s) - 1)))

\* Array.prototype.slice(0, end): a negative end counts from the end of the
\* array, an end past the array stops at its length.
slice(s, end) ==
    LET final == IF end < 0 THEN Max(Len(s) + end, 0) ELSE Min(end, Len(s))
    IN  SubSeq(s, 1, final)

(***************************************************************************)
(* Palette: the Map color -> count, as the sequence of its entries in      *)
(* insertion order.                                                        *)
(***************************************************************************)
PaletteColors(p) == {p[i].color : i \in 1..Len(p)}

PaletteLength(p) == Len(p)

\* Palette[Symbol.iterator]: the entries sorted by count, largest first.
PaletteIterator(p) ==
    LET keyed == [i \in 1..Len(p) |-> [key |-> p[i].count, entry |-> p[i]]]
        sorted == SortDesc(keyed)
    IN  [i \in 1..Len(p) |-> sorted[i].entry]

(***************************************************************************)
(* ColorExtractor: the Lab cache.                                          *)
(***************************************************************************)
EmptyCache == [c \in {} |-> Lab(0, 0, 0)]

\* Mutant of getLabColor: the cache is keyed by the low byte of the color.
getLabColor_keyedByBlue(opts, cache, color) ==
    LET key == color % 256
    IN  IF ~opts.useCache
        THEN [lab |-> convertToLab(color), cache |-> cache]
        ELSE IF key \in DOMAIN cache
        THEN [lab |-> cache[key], cache |-> cache]
        ELSE LET kept == IF Cardinality(DOMAIN cache) >= opts.maxCacheSize
                         THEN EmptyCache ELSE cache
                 labColor == convertToLab(color)
             IN  [lab |-> labColor, cache |-> (key :> labColor) @@ kept]

\* Mutant of getLabColor: the cache is cleared only above capacity.
getLabColor_clearsAboveCapacity(opts, cache, color) ==
    IF ~opts.useCache
    THEN [lab |-> convertToLab(color), cache |-> cache]
    ELSE IF color \in DOMAIN cache
    THEN [lab |-> cache[color], cache |-> cache]
    ELSE LET kept == IF Cardinality(DOMAIN cache) > opts.maxCacheSize
                     THEN EmptyCache ELSE cache
             labColor == convertToLab(color)
         IN  [lab |-> labColor, cache |-> (color :> labColor) @@ kept]

\* Mutant of getLabColor: a miss at capacity evicts one entry only.
getLabColor_evictsOne(opts, cache, color) ==
    IF ~opts.useCache
    THEN [lab |-> convertToLab(color), cache |-> cache]
    ELSE IF color \in DOMAIN cache
    THEN [lab |-> cache[color], cache |-> cache]
    ELSE LET kept == IF Cardinality(DOMAIN cache) >= opts.maxCacheSize
                     THEN LET evicted == CHOOSE c \in DOMAIN cache : TRUE
                          IN  [c \in DOMAIN cache \ {evicted} |-> cache[c]]
                     ELSE cache
             labColor == convertToLab(color)
         IN  [lab |-> labColor, cache |-> (color :> labColor) @@ kept]

\* getLabColor: the Lab value handed back and the cache afterwards.  A miss
\* at capacity clears the whole cache before the new entry goes in.
getLabColor(opts, cache, color) ==
    IF ~opts.useCache
    THEN [lab |-> convertToLab(color), cache |-> cache]
    ELSE IF color \in DOMAIN cache
    THEN [lab |-> cache[color], cache |-> cache]
    ELSE LET kept == IF Cardinality(DOMAIN cache) >= opts.maxCacheSize
                     THEN EmptyCache ELSE cache
             labColor == convertToLab(color)
         IN  [lab |-> labColor, cache |-> (color :> labColor) @@ kept]

(***************************************************************************)
(* ColorExtractor: the ranking pass (initialize).                          *)
(***************************************************************************)
\* chromaDistance * lightnessWeight * frequencyWeight, in units of 1/100000:
\* chroma in 1/100 (1 when it is 0), 1 - L * 0.005 as (20000 - L) / 20000,
\* sqrt(count) in 1/1000.
Priority(labColor, count) ==
    LET chroma == Sqrt(labColor.a * labColor.a + labColor.b * labColor.b)
        chromaDistance == IF chroma = 0 THEN 100 ELSE chroma
        frequencyWeight == Sqrt(count * 1000000)
    IN  ((chromaDistance * (20000 - labColor.L)) \div 20000) * frequencyWeight

\* Mutant of RunBatch: the index is advanced once more at a batch yield, so
\* the entry after each yield is skipped.
RECURSIVE RunBatch_skipAfterYield(_, _, _, _, _)
RunBatch_skipAfterYield(opts, entries, index, priorities, cache) ==
    IF index >= Len(entries)
    THEN [suspended |-> FALSE, index |-> index, priorities |-> priorities,
          cache |-> cache]
    ELSE LET entry == entries[index + 1]
             got == getLabColor(opts, cache, entry.color)
             item == [color |-> entry.color,
                      key |-> Priority(got.lab, entry.count)]
             next == index + 1
         IN  IF next % opts.batchSize = 0
             THEN [suspended |-> TRUE, index |-> next + 1,
                   priorities |-> Append(priorities, item), cache |-> got.cache]
             ELSE RunBatch_skipAfterYield(opts, entries, next,
                                          Append(priorities, item), got.cache)

\* Mutant of RunBatch: no yield after the last entry.
RECURSIVE RunBatch_noYieldAtEnd(_, _, _, _, _)
RunBatch_noYieldAtEnd(opts, entries, index, priorities, cache) ==
    IF index >= Len(entries)
    THEN [suspended |-> FALSE, index |-> index, priorities |-> priorities,
          cache |-> cache]
    ELSE LET entry == entries[index + 1]
             got == getLabColor(opts, cache, entry.color)
             item == [color |-> entry.color,
                      key |-> Priority(got.lab, entry.count)]
             next == index + 1
         IN  IF next % opts.batchSize = 0 /\ next < Len(entries)
             THEN [suspended |-> TRUE, index |-> next,
                   priorities |-> Append(priorities, item), cache |-> got.cache]
             ELSE RunBatch_noYieldAtEnd(opts, entries, next,
                                        Append(priorities, item), got.cache)

\* The body of the for loop of initialize, from entry index + 1 up to the
\* next batch yield (suspended = TRUE) or the end of the entries.
RECURSIVE RunBatch(_, _, _, _, _)
RunBatch(opts, entries, index, priorities, cache) ==
    IF index >= Len(entries)
    THEN [suspended |-> FALSE, index |-> index, priorities |-> priorities,
          cache |-> cache]
    ELSE LET entry == entries[index + 1]
             got == getLabColor(opts, cache, entry.color)
             item == [color |-> entry.color,
                      key |-> Priority(got.lab, entry.count)]
             next == index + 1
         IN  IF next % opts.batchSize = 0
             THEN [suspended |-> TRUE, index |-> next,
                   priorities |-> Append(priorities, item), cache |-> got.cache]
             ELSE RunBatch(opts, entries, next, Append(priorities, item),
                           got.cache)

\* Mutant of SortedByPriority: the priorities are not sorted.
SortedByPriority_unsorted(priorities) ==
    [i \in 1..Len(priorities) |-> priorities[i].color]

\* priorities.sort(...) and the map to the colors.
SortedByPriority(priorities) ==
    LET sorted == SortDesc(priorities)
    IN  [i \in 1..Len(sorted) |-> sorted[i].color]

(***************************************************************************)
(* ColorExtractor: the merge pass (mergeColors).                           *)
(***************************************************************************)
\* Mutant of getGridKey: every color falls into one bucket.
getGridKey_oneBucket(labColor) == << 0, 0, 0 >>

\* Floor of x / 20 for x in 1/100 units.
getGridKey(labColor) ==
    << labColor.L \div (gridSize * 100),
       (labColor.a + 12800) \div (gridSize * 100),
       (labColor.b + 12800) \div (gridSize * 100) >>

\* Mutant of calculateDeltaE: the b coordinate is left out of the distance.
calculateDeltaE_noDeltaB(lab1, lab2) ==
    LET deltaL == lab2.L - lab1.L
        deltaA == lab2.a - lab1.a
    IN  IF Abs(deltaL) > 5000 THEN 100000000
        ELSE deltaL * deltaL + deltaA * deltaA

\* calculateDeltaE, squared, in units of 1/10000: 100 when |deltaL| > 50.
calculateDeltaE(lab1, lab2) ==
    LET deltaL == lab2.L - lab1.L
        deltaA == lab2.a - lab1.a
        deltaB == lab2.b - lab1.b
    IN  IF Abs(deltaL) > 5000 THEN 100000000
        ELSE deltaL * deltaL + deltaA * deltaA + deltaB * deltaB

\* deltaE < maxDelta with maxDelta = 100 / colorCount, on the squared
\* distance: d2 * colorCount^2 < 100000000.
BelowMaxDelta(d2, colorCount) ==
    d2 <= 99999999 \div (colorCount * colorCount)

\* Mutant of MergeStep: a merged candidate's representative is pushed again.
MergeStep_pushRepresentative(opts, color, limit, st) ==
    LET got == getLabColor(opts, st.cache, color)
        gridKey == getGridKey(got.lab)
        nearbyIndices == IF gridKey \in DOMAIN st.spatialGrid
                         THEN st.spatialGrid[gridKey] ELSE <<>>
        close == {n \in 1..Len(nearbyIndices) :
                     BelowMaxDelta(
                         calculateDeltaE(got.lab,
                                         st.labColors[nearbyIndices[n] + 1]),
                         limit)}
        resultIndex == Len(st.result)
    IN  IF close # {}
        THEN LET rep == nearbyIndices[CHOOSE n \in close : TRUE] + 1
             IN  [st EXCEPT !.cache = got.cache,
                            !.result = Append(@, st.result[rep]),
                            !.labColors = Append(@, st.labColors[rep])]
        ELSE [result |-> Append(st.result, color),
              labColors |-> Append(st.labColors, got.lab),
              spatialGrid |->
                  (gridKey :> Append(nearbyIndices, resultIndex))
                      @@ st.spatialGrid,
              cache |-> got.cache]

\* Mutant of MergeStep: an accepted color is not indexed in the grid.
MergeStep_noGridInsert(opts, color, limit, st) ==
    LET got == getLabColor(opts, st.cache, color)
        gridKey == getGridKey(got.lab)
        nearbyIndices == IF gridKey \in DOMAIN st.spatialGrid
                         THEN st.spatialGrid[gridKey] ELSE <<>>
        merged == \E n \in 1..Len(nearbyIndices) :
                     BelowMaxDelta(
                         calculateDeltaE(got.lab,
                                         st.labColors[nearbyIndices[n] + 1]),
                         limit)
    IN  IF merged
        THEN [st EXCEPT !.cache = got.cache]
        ELSE [result |-> Append(st.result, color),
              labColors |-> Append(st.labColors, got.lab),
              spatialGrid |-> st.spatialGrid,
              cache |-> got.cache]

\* Mutant of MergeStep: the candidate is compared with every accepted color,
\* whatever its bucket.
MergeStep_anyBucket(opts, color, limit, st) ==
    LET got == getLabColor(opts, st.cache, color)
        gridKey == getGridKey(got.lab)
        nearbyIndices == IF gridKey \in DOMAIN st.spatialGrid
                         THEN st.spatialGrid[gridKey] ELSE <<>>
        merged == \E n \in 1..Len(st.labColors) :
                     BelowMaxDelta(calculateDeltaE(got.lab, st.labColors[n]),
                                   limit)
        resultIndex == Len(st.result)
    IN  IF merged
        THEN [st EXCEPT !.cache = got.cache]
        ELSE [result |-> Append(st.result, color),
              labColors |-> Append(st.labColors, got.lab),
              spatialGrid |->
                  (gridKey :> Append(nearbyIndices, resultIndex))
                      @@ st.spatialGrid,
              cache |-> got.cache]

\* One round of the for loop of mergeColors on colors[i].
MergeStep(opts, color, limit, st) ==
    LET got == getLabColor(opts, st.cache, color)
        gridKey == getGridKey(got.lab)
        nearbyIndices == IF gridKey \in DOMAIN st.spatialGrid
                         THEN st.spatialGrid[gridKey] ELSE <<>>
        merged == \E n \in 1..Len(nearbyIndices) :
                     BelowMaxDelta(
                         calculateDeltaE(got.lab,
                                         st.labColors[nearbyIndices[n] + 1]),
                         limit)
        resultIndex == Len(st.result)
    IN  IF merged
        THEN [st EXCEPT !.cache = got.cache]
        ELSE [result |-> Append(st.result, color),
              labColors |-> Append(st.labColors, got.lab),
              spatialGrid |->
                  (gridKey :> Append(nearbyIndices, resultIndex))
                      @@ st.spatialGrid,
              cache |-> got.cache]

\* Mutant of MergeLoop: the loop never stops at the limit.
RECURSIVE MergeLoop_noLimit(_, _, _, _, _, _)
MergeLoop_noLimit(opts, colors, i, actualLimit, limit, st) ==
    IF i > Len(colors) THEN st
    ELSE MergeLoop_noLimit(opts, colors, i + 1, actualLimit, limit,
                           MergeStep(opts, colors[i], limit, st))

\* Mutant of MergeLoop: the loop stops one color short of the limit.
RECURSIVE MergeLoop_stopsEarly(_, _, _, _, _, _)
MergeLoop_stopsEarly(opts, colors, i, actualLimit, limit, st) ==
    IF i > Len(colors) \/ Len(st.result) >= actualLimit - 1 THEN st
    ELSE MergeLoop_stopsEarly(opts, colors, i + 1, actualLimit, limit,
                              MergeStep(opts, colors[i], limit, st))

RECURSIVE MergeLoop(_, _, _, _, _, _)
MergeLoop(opts, colors, i, actualLimit, limit, st) ==
    IF i > Len(colors) \/ Len(st.result) >= actualLimit THEN st
    ELSE MergeLoop(opts, colors, i + 1, actualLimit, limit,
                   MergeStep(opts, colors[i], limit, st))

\* Mutant of mergeColors: the early return slices from the end of the list.
mergeColors_slicesFromEnd(opts, sorted, limit, cache) ==
    IF sorted = NULL
    THEN [threw |-> TRUE, result |-> <<>>, cache |-> cache]
    ELSE LET colors == sorted[1]
             actualLimit == Min(Len(colors), limit)
         IN  IF actualLimit <= 1
             THEN [threw |-> FALSE,
                   result |-> SubSeq(colors, Len(colors) - actualLimit + 1,
                                     Len(colors)),
                   cache |-> cache]
             ELSE LET st == MergeLoop(opts, colors, 1, actualLimit, limit,
                                      [result |-> <<>>, labColors |-> <<>>,
                                       spatialGrid |-> [k \in {} |-> <<>>],
                                       cache |-> cache])
                  IN  [threw |-> FALSE, result |-> st.result,
                       cache |-> st.cache]

\* mergeColors(this.sortedColors!, limit, 100 / limit): the result and the
\* cache afterwards.  With sortedColors null, colors.length throws.
mergeColors(opts, sorted, limit, cache) ==
    IF sorted = NULL
    THEN [threw |-> TRUE, result |-> <<>>, cache |-> cache]
    ELSE LET colors == sorted[1]
             actualLimit == Min(Len(colors), limit)
         IN  IF actualLimit <= 1
             THEN [threw |-> FALSE, result |-> slice(colors, actualLimit),
                   cache |-> cache]
             ELSE LET st == MergeLoop(opts, colors, 1, actualLimit, limit,
                                      [result |-> <<>>, labColors |-> <<>>,
                                       spatialGrid |-> [k \in {} |-> <<>>],
                                       cache |-> cache])
                  IN  [threw |-> FALSE, result |-> st.result,
                       cache |-> st.cache]

(***************************************************************************)
(* The state.                                                              *)
(***************************************************************************)
VARIABLES
    palette,        \* the Palette handed to the constructor
    options,        \* this.options
    sortedColors,   \* this.sortedColors: NULL or Some(ranking)
    labCache,       \* this.labCache
    pending,        \* the extract calls in flight, oldest first
    last,           \* the operation that settled last, and its outcome
    initCount,      \* initialize() runs since construction or clearCache
    probe           \* a component operation run on its own: its input,
                    \* its position and its outcome

vars == <<palette, options, sortedColors, labCache, pending, last, initCount,
          probe>>

Entries == [color : Universe, count : Counts]

\* The palettes of up to MaxPalette unique colors.  Each is listed once, its
\* entries in ascending color order: no two entries drawn from Universe
\* and Counts have equal priority, so the insertion order decides nothing.
Palettes ==
    UNION {{p \in [1..n -> Entries] :
               \A i, j \in 1..n : i < j => p[i].color < p[j].color} :
           n \in 0..MaxPalette}

\* The options tried.  maxCacheSize is read only when useCache is set, so
\* it is varied only then.
Options ==
    {o \in [useCache : BOOLEAN,
            maxCacheSize : SmallCacheSizes \cup {DEFAULT_OPTIONS.maxCacheSize},
            batchSize : SmallBatchSizes \cup {DEFAULT_OPTIONS.batchSize}] :
        ~o.useCache => o.maxCacheSize = DEFAULT_OPTIONS.maxCacheSize}

\* No component operation is run on its own.
NoProbe == [op |-> "none"]

\* new ColorExtractor(palette, options)
Init ==
    /\ palette \in Palettes
    /\ options \in Options
    /\ sortedColors = NULL
    /\ labCache = EmptyCache
    /\ pending = <<>>
    /\ last = [op |-> "none", k |-> 0, status |-> "none", result |-> <<>>,
               ranRanking |-> FALSE, ref |-> NULL]
    /\ initCount = 0
    /\ probe = NoProbe

\* No extract call is in flight: the caller awaits each call.
Serialized == pending = <<>>

\* The record of an extract(k) call that settles now.  ref is the result
\* the call before the latest clearCache gave for the same k, if any.
Settled(k, m, ran) ==
    [op |-> "extract", k |-> k,
     status |-> IF m.threw THEN "rejected" ELSE "resolved",
     result |-> m.result, ranRanking |-> ran,
     ref |-> IF last.op = "clearCache" /\ last.status = "resolved"
                /\ last.k = k
             THEN Some(last.result) ELSE NULL]

\* Mutant of Suspended: the priorities computed so far do not survive the
\* yield.
Suspended_losesPriorities(k, b) ==
    [k |-> k, pc |-> "yield", entries |-> b.entries, index |-> b.index,
     priorities |-> <<>>]

Suspended(k, b) ==
    [k |-> k, pc |-> "yield", entries |-> b.entries, index |-> b.index,
     priorities |-> b.priorities]

Awaiting(k) ==
    [k |-> k, pc |-> "await", entries |-> <<>>, index |-> 0,
     priorities |-> <<>>]

Remove(s, i) == SubSeq(s, 1, i - 1) \o SubSeq(s, i + 1, Len(s))

\* Mutant of ZeroCount: no early return for colorCount 0.
ZeroCount_never(colorCount) == FALSE

\* `if (colorCount === 0) return [];`
ZeroCount(colorCount) == colorCount = 0

\* Mutant of NeedsInitialize: the test is inverted.
NeedsInitialize_inverted == sortedColors # NULL

\* Mutant of NeedsInitialize: an empty ranking counts as missing.
NeedsInitialize_emptyIsFalsy == sortedColors = NULL \/ sortedColors = Some(<<>>)

\* `if (!this.sortedColors)`: only null is falsy, an empty array is not.
NeedsInitialize == sortedColors = NULL

\* Mutant of EmptyRanking: the empty palette leaves sortedColors null.
EmptyRanking_null == NULL

\* `this.sortedColors = [];` for an empty palette.
EmptyRanking == Some(<<>>)

(***************************************************************************)
(* initialize(): from its start to the first batch yield, or to its        *)
(* return.  The caller, extract(k), is then suspended at the await.        *)
(***************************************************************************)
initialize(k) ==
    LET entries == PaletteIterator(palette)
    IN  /\ initCount' = initCount + 1
        /\ IF Len(entries) = 0
           THEN /\ sortedColors' = EmptyRanking
                /\ labCache' = labCache
                /\ pending' = Append(pending, Awaiting(k))
           ELSE LET b == RunBatch(options, entries, 0, <<>>, labCache)
                IN  /\ labCache' = b.cache
                    /\ IF b.suspended
                       THEN /\ sortedColors' = sortedColors
                            /\ pending' = Append(pending,
                                   Suspended(k, [b EXCEPT !.cache = <<>>]
                                                 @@ [entries |-> entries]))
                       ELSE /\ sortedColors' =
                                   Some(SortedByPriority(b.priorities))
                            /\ pending' = Append(pending, Awaiting(k))
        /\ UNCHANGED <<palette, options, last>>

\* initialize() resumed after a batch yield.
resumeBatch(i) ==
    /\ pending[i].pc = "yield"
    /\ LET call == pending[i]
           b == RunBatch(options, call.entries, call.index, call.priorities,
                         labCache)
       IN  /\ labCache' = b.cache
           /\ IF b.suspended
              THEN /\ sortedColors' = sortedColors
                   /\ pending' = [pending EXCEPT ![i] =
                          Suspended(call.k, [b EXCEPT !.cache = <<>>]
                                            @@ [entries |-> call.entries])]
              ELSE /\ sortedColors' = Some(SortedByPriority(b.priorities))
                   /\ pending' = [pending EXCEPT ![i] = Awaiting(call.k)]
    /\ UNCHANGED <<palette, options, last, initCount>>

\* extract(k) resumed after `await this.initialize()`: the merge pass.
resumeExtract(i) ==
    /\ pending[i].pc = "await"
    /\ LET k == pending[i].k
           m == mergeColors(options, sortedColors, k, labCache)
       IN  /\ labCache' = m.cache
           /\ last' = Settled(k, m, TRUE)
    /\ pending' = Remove(pending, i)
    /\ UNCHANGED <<palette, options, sortedColors, initCount>>

\* extract(colorCount), up to its first suspension or its return.
extract(colorCount) ==
    IF ZeroCount(colorCount)
    THEN /\ last' = Settled(colorCount, [threw |-> FALSE, result |-> <<>>],
                            FALSE)
         /\ UNCHANGED <<palette, options, sortedColors, labCache, pending,
                        initCount>>
    ELSE IF NeedsInitialize
    THEN initialize(colorCount)
    ELSE LET m == mergeColors(options, sortedColors, colorCount, labCache)
         IN  /\ labCache' = m.cache
             /\ last' = Settled(colorCount, m, FALSE)
             /\ UNCHANGED <<palette, options, sortedColors, pending,
                            initCount>>

\* Mutant of clearCache: the ranking is reset to an empty array, not to null.
clearCache_emptyRanking ==
    /\ labCache' = EmptyCache
    /\ sortedColors' = Some(<<>>)
    /\ initCount' = 0
    /\ last' = [last EXCEPT !.op = "clearCache", !.ranRanking = FALSE,
                            !.ref = NULL]
    /\ UNCHANGED <<palette, options, pending>>

\* Mutant of clearCache: the cached ranking is kept.
clearCache_keepsRanking ==
    /\ labCache' = EmptyCache
    /\ sortedColors' = sortedColors
    /\ initCount' = 0
    /\ last' = [last EXCEPT !.op = "clearCache", !.ranRanking = FALSE,
                            !.ref = NULL]
    /\ UNCHANGED <<palette, options, pending>>

clearCache ==
    /\ labCache' = EmptyCache
    /\ sortedColors' = NULL
    /\ initCount' = 0
    /\ last' = [last EXCEPT !.op = "clearCache", !.ranRanking = FALSE,
                            !.ref = NULL]
    /\ UNCHANGED <<palette, options, pending>>

(***************************************************************************)
(* The caller awaits every extract call before the next operation.         *)
(***************************************************************************)
Next ==
    \/ \E k \in 0..MaxColorCount :
           Serialized /\ extract(k) /\ UNCHANGED probe
    \/ \E i \in 1..Len(pending) : resumeBatch(i) /\ UNCHANGED probe
    \/ \E i \in 1..Len(pending) : resumeExtract(i) /\ UNCHANGED probe
    \/ Serialized /\ clearCache /\ UNCHANGED probe

Spec == Init /\ [][Next]_vars

(***************************************************************************)
(* The caller does not await: clearCache() may be called while an extract  *)
(* call is pending, at a batch yield or at the await of initialize().      *)
(***************************************************************************)
\* The options tried with overlapping calls: every batch size, with the
\* smallest and the default cache.
OverlapOptions ==
    {o \in Options : o.useCache /\ o.maxCacheSize # 2}

InitOverlap ==
    /\ palette \in Palettes
    /\ options \in OverlapOptions
    /\ sortedColors = NULL
    /\ labCache = EmptyCache
    /\ pending = <<>>
    /\ last = [op |-> "none", k |-> 0, status |-> "none", result |-> <<>>,
               ranRanking |-> FALSE, ref |-> NULL]
    /\ initCount = 0
    /\ probe = NoProbe

NextOverlap ==
    \/ \E k \in 0..MaxColorCount :
           Serialized /\ extract(k) /\ UNCHANGED probe
    \/ \E i \in 1..Len(pending) : resumeBatch(i) /\ UNCHANGED probe
    \/ \E i \in 1..Len(pending) : resumeExtract(i) /\ UNCHANGED probe
    \/ clearCache /\ UNCHANGED probe

SpecOverlap == InitOverlap /\ [][NextOverlap]_vars

(***************************************************************************)
(* Re-entrant extract calls: up to MaxPending calls are in flight at once, *)
(* resumed in any order; clearCache() is not called.                       *)
(***************************************************************************)
MaxPending == 2

\* The color counts asked for by re-entrant calls: 0xB81090 and 0xD860A0
\* merge at 2 and not at 4.
ReentrantCounts == {0, 2, 4}

\* Re-entrant calls are tried on the palettes in which each color has one
\* pixel.
InitReentrant ==
    /\ palette \in {p \in Palettes : \A i \in 1..Len(p) : p[i].count = 1}
    /\ options \in OverlapOptions
    /\ sortedColors = NULL
    /\ labCache = EmptyCache
    /\ pending = <<>>
    /\ last = [op |-> "none", k |-> 0, status |-> "none", result |-> <<>>,
               ranRanking |-> FALSE, ref |-> NULL]
    /\ initCount = 0
    /\ probe = NoProbe

NextReentrant ==
    \/ \E k \in ReentrantCounts :
           Len(pending) < MaxPending /\ extract(k) /\ UNCHANGED probe
    \/ \E i \in 1..Len(pending) : resumeBatch(i) /\ UNCHANGED probe
    \/ \E i \in 1..Len(pending) : resumeExtract(i) /\ UNCHANGED probe

SpecReentrant == InitReentrant /\ [][NextReentrant]_vars

(***************************************************************************)
(* A fresh instance: what extract(k) resolves with on                      *)
(* new ColorExtractor(p, opts), the ranking pass run through all its       *)
(* batches and the merge pass after it.                                    *)
(***************************************************************************)
RECURSIVE RunAllBatches(_, _, _, _, _)
RunAllBatches(opts, entries, index, priorities, cache) ==
    LET b == RunBatch(opts, entries, index, priorities, cache)
    IN  IF b.suspended
        THEN RunAllBatches(opts, entries, b.index, b.priorities, b.cache)
        ELSE [sorted |-> SortedByPriority(b.priorities), cache |-> b.cache]

FreshExtract(opts, p, k) ==
    IF ZeroCount(k) THEN <<>>
    ELSE LET entries == PaletteIterator(p)
             r == IF Len(entries) = 0
                  THEN [sorted |-> <<>>, cache |-> EmptyCache]
                  ELSE RunAllBatches(opts, entries, 0, <<>>, EmptyCache)
         IN  mergeColors(opts, Some(r.sorted), k, r.cache).result

(***************************************************************************)
(* The merge pass on its own, one round of its loop per step:              *)
(* mergeColors(colors, limit, 100 / limit) on a ranked list of distinct    *)
(* colors and an integer limit, on an instance with an empty Lab cache.    *)
(***************************************************************************)
RankedLists ==
    UNION {{c \in [1..n -> MergeUniverse] :
               \A i, j \in 1..n : i # j => c[i] # c[j]} :
           n \in 0..MaxPalette}

Limits == (-MaxNegLimit)..MaxColorCount

\* The merge pass does not read batchSize.
MergeOptions == {o \in Options : o.batchSize = DEFAULT_OPTIONS.batchSize}

\* The call at its entry.  i is the array index of the next candidate.
MergeCall(colors, limit) ==
    [op |-> "mergeColors", pc |-> "entry", colors |-> colors,
     limit |-> limit, actualLimit |-> 0, i |-> 0, result |-> <<>>,
     labColors |-> <<>>, spatialGrid |-> [k \in {} |-> <<>>]]

InitMerge ==
    /\ palette = <<>>
    /\ options \in MergeOptions
    /\ sortedColors = NULL
    /\ labCache = EmptyCache
    /\ pending = <<>>
    /\ last = [op |-> "none", k |-> 0, status |-> "none", result |-> <<>>,
               ranRanking |-> FALSE, ref |-> NULL]
    /\ initCount = 0
    /\ probe \in {MergeCall(colors, limit) :
                      colors \in RankedLists, limit \in Limits}

\* Lines 76-77: actualLimit and the early return of a slice.
mergeEntry ==
    /\ probe.op = "mergeColors" /\ probe.pc = "entry"
    /\ LET actualLimit == Min(Len(probe.colors), probe.limit)
       IN  probe' = IF actualLimit <= 1
                    THEN [probe EXCEPT !.pc = "done",
                                       !.actualLimit = actualLimit,
                                       !.result = slice(probe.colors,
                                                        actualLimit)]
                    ELSE [probe EXCEPT !.pc = "loop",
                                       !.actualLimit = actualLimit]
    /\ UNCHANGED <<palette, options, sortedColors, labCache, pending, last,
                   initCount>>

\* One round of the for loop, lines 84-109, on colors[i].
mergeRound ==
    /\ probe.op = "mergeColors" /\ probe.pc = "loop"
    /\ probe.i < Len(probe.colors)
    /\ Len(probe.result) < probe.actualLimit
    /\ LET st == MergeStep(options, probe.colors[probe.i + 1], probe.limit,
                           [result |-> probe.result,
                            labColors |-> probe.labColors,
                            spatialGrid |-> probe.spatialGrid,
                            cache |-> labCache])
       IN  /\ probe' = [probe EXCEPT !.i = @ + 1,
                                     !.result = st.result,
                                     !.labColors = st.labColors,
                                     !.spatialGrid = st.spatialGrid]
           /\ labCache' = st.cache
    /\ UNCHANGED <<palette, options, sortedColors, pending, last, initCount>>

\* The loop ends, at the break of line 85 or past the last color, and the
\* result is returned.
mergeReturn ==
    /\ probe.op = "mergeColors" /\ probe.pc = "loop"
    /\ (probe.i >= Len(probe.colors)
           \/ Len(probe.result) >= probe.actualLimit)
    /\ probe' = [probe EXCEPT !.pc = "done"]
    /\ UNCHANGED <<palette, options, sortedColors, labCache, pending, last,
                   initCount>>

NextMerge ==
    \/ mergeEntry
    \/ mergeRound
    \/ mergeReturn

SpecMerge == InitMerge /\ [][NextMerge]_vars

(***************************************************************************)
(* The Lab cache on its own, one getLabColor call per step, on an instance *)
(* that may also be cleared.                                               *)
(***************************************************************************)
InitCache ==
    /\ palette = <<>>
    /\ options \in MergeOptions
    /\ sortedColors = NULL
    /\ labCache = EmptyCache
    /\ pending = <<>>
    /\ last = [op |-> "none", k |-> 0, status |-> "none", result |-> <<>>,
               ranRanking |-> FALSE, ref |-> NULL]
    /\ initCount = 0
    /\ probe = NoProbe

\* getLabColor(color).  hit and sizeBefore record what the call found.
callGetLabColor(color) ==
    /\ LET got == getLabColor(options, labCache, color)
       IN  /\ labCache' = got.cache
           /\ probe' = [op |-> "getLabColor", color |-> color,
                        lab |-> got.lab,
                        hit |-> color \in DOMAIN labCache,
                        sizeBefore |-> Cardinality(DOMAIN labCache)]
    /\ UNCHANGED <<palette, options, sortedColors, pending, last, initCount>>

\* After clearCache no lookup is the latest call.
NextCache ==
    \/ \E color \in MergeUniverse : callGetLabColor(color)
    \/ clearCache /\ probe' = NoProbe

SpecCache == InitCache /\ [][NextCache]_vars

(***************************************************************************)
(* Properties of extract and clearCache under Spec.                        *)
(***************************************************************************)
\* The call that settled last is an extract(k) that resolved.
Resolved == last.op = "extract" /\ last.status = "resolved"

Range(seq) == {seq[i] : i \in 1..Len(seq)}

\* C1: for any palette and colorCount >= 1, extract returns at most
\* min(colorCount, number of unique palette colors) colors, each of them a
\* color of the palette.
C1_AtMostMinFromPalette ==
    (Resolved /\ last.k >= 1) =>
        /\ Len(last.result) <= Min(last.k, PaletteLength(palette))
        /\ Range(last.result) \subseteq PaletteColors(palette)

\* A call asked for fewer colors than the palette holds and the merge pass
\* stopped at the limit with several colors accepted.
C1_Witness ==
    /\ Resolved
    /\ last.k >= 2
    /\ last.k < PaletteLength(palette)
    /\ Len(last.result) = last.k

\* No two palette colors that share a grid bucket are closer than
\* 100 / colorCount.
NoCloseNeighbours(p, colorCount) ==
    \A i, j \in 1..Len(p) :
        LET li == convertToLab(p[i].color)
            lj == convertToLab(p[j].color)
        IN  (i # j /\ getGridKey(li) = getGridKey(lj)) =>
                ~BelowMaxDelta(calculateDeltaE(li, lj), colorCount)

\* C2 as stated: extract(colorCount) returns exactly
\* min(colorCount, palette.length) colors.
C2_ExactlyMin ==
    (Resolved /\ last.k >= 1) =>
        Len(last.result) = Min(last.k, PaletteLength(palette))

\* C2, amended: extract returns at most min(colorCount, palette.length)
\* colors, and exactly that many when the minimum is at most 1 or no two
\* palette colors of one grid bucket are closer than 100 / colorCount.
C2_ExactlyMinUnlessMerged ==
    (Resolved /\ last.k >= 1) =>
        LET m == Min(last.k, PaletteLength(palette))
        IN  /\ Len(last.result) <= m
            /\ (m <= 1 \/ NoCloseNeighbours(palette, last.k)) =>
                   Len(last.result) = m

\* Two colors of one bucket, too far apart to merge at this colorCount, are
\* both returned and the result has the full length.
C2_Witness ==
    /\ Resolved
    /\ last.k >= 1
    /\ NoCloseNeighbours(palette, last.k)
    /\ \E i, j \in 1..Len(last.result) :
           /\ i # j
           /\ getGridKey(convertToLab(last.result[i]))
                  = getGridKey(convertToLab(last.result[j]))
    /\ Len(last.result) = Min(last.k, PaletteLength(palette))

\* C3: the colors returned by one extract call are pairwise distinct.
C3_PairwiseDistinct ==
    Resolved =>
        \A i, j \in 1..Len(last.result) :
            last.result[i] = last.result[j] => i = j

\* A call whose merge pass dropped a candidate and still returned several
\* colors.
C3_Witness ==
    /\ Resolved
    /\ Len(last.result) >= 2
    /\ last.k >= PaletteLength(palette)
    /\ Len(last.result) < PaletteLength(palette)

\* C4: extract(0) resolves with the empty sequence without starting the
\* ranking pass, and the step leaves the cached ranking and the Lab cache
\* as they were.
C4_ZeroIsNoOp ==
    /\ [](\A i \in 1..Len(pending) : pending[i].k # 0)
    /\ []((last.op = "extract" /\ last.k = 0) =>
             (last.status = "resolved" /\ last.result = <<>>
                  /\ ~last.ranRanking))
    /\ [][(last' # last /\ last'.op = "extract" /\ last'.k = 0) =>
             UNCHANGED <<sortedColors, labCache, initCount, pending>>]_vars

\* extract(0) settled on an instance that holds a ranking and cached Lab
\* values of a non-empty palette.
C4_Witness ==
    /\ last.op = "extract"
    /\ last.k = 0
    /\ sortedColors # NULL
    /\ labCache # EmptyCache
    /\ PaletteLength(palette) >= 2

\* C5: on an empty palette extract(colorCount), colorCount >= 1, resolves
\* with the empty sequence, on the first call and on every later one.
C5_EmptyPaletteEmptyResult ==
    (PaletteLength(palette) = 0 /\ last.op = "extract" /\ last.k >= 1) =>
        (last.status = "resolved" /\ last.result = <<>>)

\* A later call on an empty palette: it found the cached empty ranking.
C5_Witness ==
    /\ PaletteLength(palette) = 0
    /\ Resolved
    /\ last.k >= 1
    /\ ~last.ranRanking

\* C6: extract never rejects, whatever extract and clearCache calls were
\* made and awaited before it.
C6_NeverRejects == last.status # "rejected"

\* A call that ran the ranking pass anew after a clearCache and resolved.
C6_Witness ==
    /\ Resolved
    /\ last.k >= 1
    /\ last.ranRanking
    /\ last.ref # NULL
    /\ PaletteLength(palette) = MaxPalette

\* C7: the result of extract(k) depends on the palette and k only: it is
\* what a fresh instance returns, whatever calls came before.
C7_SameAsFreshInstance ==
    Resolved => last.result = FreshExtract(options, palette, last.k)

\* A later call, served from the cached ranking with Lab values in the
\* cache, that returned several colors.
C7_Witness ==
    /\ Resolved
    /\ ~last.ranRanking
    /\ labCache # EmptyCache
    /\ Len(last.result) >= 2

\* C8: clearCache() followed by extract(k) returns what extract(k) returned
\* before the clear.
C8_SameAfterClear ==
    (Resolved /\ last.ref # NULL) => last.result = last.ref[1]

\* extract(k), clearCache(), extract(k) with several colors returned.
C8_Witness ==
    /\ Resolved
    /\ last.ref # NULL
    /\ Len(last.result) >= 2

\* C9: the ranking pass runs once per construction or clearCache: the first
\* extract with colorCount >= 1 runs it, every other call finds the ranking.
C9_RankingComputedOnce ==
    /\ initCount <= 1
    /\ (pending # <<>> \/ (last.op = "extract" /\ last.k >= 1)) =>
           initCount = 1
    /\ (pending = <<>> /\ initCount = 1) => sortedColors # NULL

\* A second extract with colorCount >= 1 on a non-empty palette, served
\* from the ranking the first one computed.
C9_Witness ==
    /\ Resolved
    /\ last.k >= 1
    /\ ~last.ranRanking
    /\ initCount = 1
    /\ PaletteLength(palette) >= 1

\* C10: the options change no result: extract(k) returns what an instance
\* with the default options returns.
C10_OptionsChangeNothing ==
    Resolved => last.result = FreshExtract(DEFAULT_OPTIONS, palette, last.k)

\* A call on an instance whose cache is smaller than the palette and whose
\* ranking pass yielded after every entry.
C10_Witness ==
    /\ Resolved
    /\ options.useCache
    /\ options.maxCacheSize < PaletteLength(palette)
    /\ options.batchSize = 1
    /\ last.ranRanking
    /\ Len(last.result) >= 2

(***************************************************************************)
(* Properties of the merge pass under SpecMerge.                           *)
(***************************************************************************)
\* A merge pass has returned.
MergeDone == probe.op = "mergeColors" /\ probe.pc = "done"

\* The stepwise pass returns what mergeColors computes in one piece.
MergeAgrees ==
    MergeDone =>
        probe.result = mergeColors(options, Some(probe.colors), probe.limit,
                                   EmptyCache).result

\* C11: for every ranked list and every integer limit, limit <= 0 included,
\* the merge pass returns at most min(limit, number of ranked colors)
\* colors (no colors when that minimum is negative); when limit <= 1 the
\* result has at most one color and is the first `limit` ranked colors
\* unmodified.
C11_DegenerateLimit ==
    MergeDone =>
        LET m == Max(Min(probe.limit, Len(probe.colors)), 0)
        IN  /\ Len(probe.result) <= m
            /\ probe.limit <= 1 =>
                   /\ Len(probe.result) <= 1
                   /\ probe.result = SubSeq(probe.colors, 1, m)

\* The merge loop is running or has run: the limit and the list both allow
\* two colors or more.
MergeLooped == probe.op = "mergeColors" /\ probe.actualLimit > 1

SameBucket(c1, c2) ==
    getGridKey(convertToLab(c1)) = getGridKey(convertToLab(c2))

\* C15: at every step of the merge pass and in its final result, no two
\* accepted representatives that share a grid bucket key have a computed
\* distance below maxDelta = 100 / limit.
C15_NoCloseRepresentatives ==
    MergeLooped =>
        \A m, n \in 1..Len(probe.result) :
            (m < n /\ SameBucket(probe.result[m], probe.result[n])) =>
                ~BelowMaxDelta(
                    calculateDeltaE(convertToLab(probe.result[n]),
                                    convertToLab(probe.result[m])),
                    probe.limit)

\* Two representatives of one bucket are accepted, and a color is left to
\* try.
C15_Witness ==
    /\ MergeLooped
    /\ probe.pc = "loop"
    /\ probe.i < Len(probe.colors)
    /\ \E m, n \in 1..Len(probe.result) :
           m < n /\ SameBucket(probe.result[m], probe.result[n])

\* C16: in a round of the merge loop the candidate is dropped if and only
\* if some accepted representative with exactly its bucket key has distance
\* strictly below maxDelta; otherwise it is appended to the result and its
\* result index is inserted under its bucket key.
C16_DroppedIffClose ==
    [][(probe.op = "mergeColors" /\ probe.pc = "loop"
           /\ probe'.i = probe.i + 1) =>
          LET candidate == probe.colors[probe.i + 1]
              gridKey == getGridKey(convertToLab(candidate))
              close ==
                  \E n \in 1..Len(probe.result) :
                      /\ SameBucket(candidate, probe.result[n])
                      /\ BelowMaxDelta(
                             calculateDeltaE(convertToLab(candidate),
                                             convertToLab(probe.result[n])),
                             probe.limit)
              before == IF gridKey \in DOMAIN probe.spatialGrid
                        THEN probe.spatialGrid[gridKey] ELSE <<>>
          IN  IF close
              THEN /\ probe'.result = probe.result
                   /\ probe'.spatialGrid = probe.spatialGrid
              ELSE /\ probe'.result = Append(probe.result, candidate)
                   /\ DOMAIN probe'.spatialGrid
                          = DOMAIN probe.spatialGrid \cup {gridKey}
                   /\ probe'.spatialGrid[gridKey]
                          = Append(before, Len(probe.result))
                   /\ \A k \in DOMAIN probe.spatialGrid \ {gridKey} :
                          probe'.spatialGrid[k] = probe.spatialGrid[k]]_vars

\* Three candidates were tried: the second was dropped, the first and the
\* third were appended and indexed under their bucket keys.
C16_Witness ==
    /\ MergeLooped
    /\ probe.i = 3
    /\ probe.result = <<probe.colors[1], probe.colors[3]>>
    /\ \E k \in DOMAIN probe.spatialGrid : probe.spatialGrid[k] = <<1>>

\* The squared Lab distance of two colors, in units of 1/10000.
LabDistance2(c1, c2) ==
    LET lab1 == convertToLab(c1)
        lab2 == convertToLab(c2)
    IN  (lab2.L - lab1.L) * (lab2.L - lab1.L)
            + (lab2.a - lab1.a) * (lab2.a - lab1.a)
            + (lab2.b - lab1.b) * (lab2.b - lab1.b)

\* A merge pass over two ranked colors has returned.
PairDone == MergeDone /\ Len(probe.colors) = 2

\* C17 as stated: in a merge pass with threshold 100 / limit (and room for
\* two colors, limit >= 2), two colors whose Lab distance is below the
\* threshold collapse to the higher-ranked one, and two colors whose
\* distance is above the threshold both survive.
C17_CollapseByDistance ==
    (PairDone /\ probe.limit >= 2) =>
        LET below == BelowMaxDelta(
                         LabDistance2(probe.colors[1], probe.colors[2]),
                         probe.limit)
        IN  /\ below => probe.result = <<probe.colors[1]>>
            /\ ~below => probe.result = probe.colors

\* C17, amended: in a merge pass over two ranked colors with limit >= 2 and
\* threshold 100 / limit, two colors of one grid bucket whose Lab distance
\* is below the threshold collapse to the higher-ranked one; two colors of
\* different buckets, or at a distance not below the threshold, both
\* survive.
C17_CollapseWithinBucket ==
    (PairDone /\ probe.limit >= 2) =>
        LET below == BelowMaxDelta(
                         LabDistance2(probe.colors[1], probe.colors[2]),
                         probe.limit)
            close == below /\ SameBucket(probe.colors[1], probe.colors[2])
        IN  /\ close => probe.result = <<probe.colors[1]>>
            /\ ~close => probe.result = probe.colors

\* Two colors of one bucket, closer than the threshold, collapsed to one.
C17_Witness ==
    /\ PairDone
    /\ probe.limit >= 2
    /\ SameBucket(probe.colors[1], probe.colors[2])
    /\ probe.result = <<probe.colors[1]>>

(***************************************************************************)
(* ImageDecoder and Palette on their own: a raw buffer is decoded, a       *)
(* palette is built from the image, the palette is queried.                *)
(***************************************************************************)
MaxSide == 3     \* largest width and height handed to fromRawData
MaxPixels == 3   \* most whole pixels in a raw buffer

RGBA_CHANNELS == 4

\* The RGB triples and alpha values the pixels are drawn from.
PixelRgbs == {<<184, 16, 144>>, <<0, 0, 0>>}
Alphas == {0, 128, 255}
Pixels == {rgb \o <<a>> : rgb \in PixelRgbs, a \in Alphas}

RECURSIVE Flatten(_)
Flatten(ps) == IF ps = <<>> THEN <<>> ELSE Head(ps) \o Flatten(Tail(ps))

\* The raw buffers: up to MaxPixels whole pixels, by themselves or followed
\* by one stray byte.
Buffers ==
    {Flatten(ps) \o stray :
        ps \in UNION {[1..n -> Pixels] : n \in 0..MaxPixels},
        stray \in {<<>>, <<255>>}}

\* Mutant of fromRawData: three channels are expected for each pixel.
fromRawData_threeChannels(width, height, data) ==
    LET expectedLength == width * height * 3
    IN  IF Len(data) # expectedLength
        THEN [threw |-> TRUE, image |-> NULL]
        ELSE [threw |-> FALSE,
              image |-> Some([width |-> width, height |-> height,
                              data |-> data])]

\* ImageDecoder.fromRawData: the image returned, or the Error thrown.
fromRawData(width, height, data) ==
    LET expectedLength == width * height * RGBA_CHANNELS
    IN  IF Len(data) # expectedLength
        THEN [threw |-> TRUE, image |-> NULL]
        ELSE [threw |-> FALSE,
              image |-> Some([width |-> width, height |-> height,
                              data |-> data])]

\* (r << 16) | (g << 8) | b on bytes.
PackRgb(r, g, b) == r * 65536 + g * 256 + b

\* Mutant of CountColor: the count of a color seen again is set to 1.
CountColor_overwrite(p, color) ==
    IF \E i \in 1..Len(p) : p[i].color = color
    THEN LET i == CHOOSE i \in 1..Len(p) : p[i].color = color
         IN  [p EXCEPT ![i].count = 1]
    ELSE Append(p, [color |-> color, count |-> 1])

\* `palette.colors.set(color, (palette.colors.get(color) || 0) + 1)`: a
\* key set again keeps its place in the Map.
CountColor(p, color) ==
    IF \E i \in 1..Len(p) : p[i].color = color
    THEN LET i == CHOOSE i \in 1..Len(p) : p[i].color = color
         IN  [p EXCEPT ![i].count = @ + 1]
    ELSE Append(p, [color |-> color, count |-> 1])

\* The for loop of Palette.fromImageData from byte offset i on.
RECURSIVE CountPixels(_, _, _, _)
CountPixels(data, i, backgroundColor, p) ==
    IF i >= Len(data) THEN p
    ELSE LET r == data[i + 1]
             g == data[i + 2]
             b == data[i + 3]
             a == data[i + 4]
         IN  IF a = 0
             THEN IF backgroundColor = NULL
                  THEN CountPixels(data, i + RGBA_CHANNELS,
                                   backgroundColor, p)
                  ELSE LET bg == backgroundColor[1]
                           bgR == (bg \div 65536) % 256
                           bgG == (bg \div 256) % 256
                           bgB == bg % 256
                       IN  CountPixels(data, i + RGBA_CHANNELS,
                               backgroundColor,
                               CountColor(p, PackRgb(bgR, bgG, bgB)))
             ELSE CountPixels(data, i + RGBA_CHANNELS, backgroundColor,
                              CountColor(p, PackRgb(r, g, b)))

\* Palette.fromImageData(imageData, backgroundColor)
fromImageData(imageData, backgroundColor) ==
    CountPixels(imageData.data, 0, backgroundColor, <<>>)

\* Palette.getMostUsedColors(limit): limit is NULL when the argument is
\* left out.  `limit ? ... : ...` takes 0 for a missing limit too.
getMostUsedColors(p, limit) ==
    LET entries == PaletteIterator(p)
    IN  IF limit # NULL /\ limit[1] # 0
        THEN slice(entries, limit[1])
        ELSE entries

\* Palette.getColorCount(color)
getColorCount(p, color) ==
    IF \E i \in 1..Len(p) : p[i].color = color
    THEN LET i == CHOOSE i \in 1..Len(p) : p[i].color = color
         IN  p[i].count
    ELSE 0

\* The background colors tried: none, or 0xB81090.
BackgroundColors == {NULL, Some(12062864)}

InitLib ==
    /\ palette = <<>>
    /\ options = DEFAULT_OPTIONS
    /\ sortedColors = NULL
    /\ labCache = EmptyCache
    /\ pending = <<>>
    /\ last = [op |-> "none", k |-> 0, status |-> "none", result |-> <<>>,
               ranRanking |-> FALSE, ref |-> NULL]
    /\ initCount = 0
    /\ probe = NoProbe

callFromRawData(width, height, data) ==
    /\ LET r == fromRawData(width, height, data)
       IN  probe' = [op |-> "fromRawData", width |-> width,
                     height |-> height, data |-> data, threw |-> r.threw,
                     image |-> r.image]
    /\ UNCHANGED <<palette, options, sortedColors, labCache, pending, last,
                   initCount>>

callFromImageData(backgroundColor) ==
    /\ probe.op = "fromRawData" /\ ~probe.threw
    /\ palette' = fromImageData(probe.image[1], backgroundColor)
    /\ probe' = [op |-> "fromImageData", image |-> probe.image[1],
                 backgroundColor |-> backgroundColor]
    /\ UNCHANGED <<options, sortedColors, labCache, pending, last, initCount>>

callGetMostUsedColors(limit) ==
    /\ probe.op \in {"fromImageData", "getMostUsedColors"}
    /\ probe' = [op |-> "getMostUsedColors", limit |-> limit,
                 result |-> getMostUsedColors(palette, limit)]
    /\ UNCHANGED <<palette, options, sortedColors, labCache, pending, last,
                   initCount>>

\* One image is decoded, first of all.
Undecoded == probe = NoProbe

NextLib ==
    \/ Undecoded /\ \E width, height \in 0..MaxSide, data \in Buffers :
                       callFromRawData(width, height, data)
    \/ \E backgroundColor \in BackgroundColors :
           callFromImageData(backgroundColor)
    \/ \E limit \in {NULL} \cup {Some(k) : k \in 0..MaxColorCount} :
           callGetMostUsedColors(limit)

SpecLib == InitLib /\ [][NextLib]_vars

(***************************************************************************)
(* Properties of Palette and ImageDecoder under SpecLib.                   *)
(***************************************************************************)
\* C12: for every palette and every limit K >= 0, getMostUsedColors(K)
\* returns at most K entries, the K entries with the highest counts, ordered
\* by count non-increasing; with no limit it returns all entries in that
\* order.
C12_TopK ==
    probe.op = "getMostUsedColors" =>
        LET result == probe.result
            left == {e \in Range(palette) : e \notin Range(result)}
        IN  /\ Range(result) \subseteq Range(palette)
            /\ \A i, j \in 1..Len(result) :
                   i < j => /\ result[i].count >= result[j].count
                            /\ result[i] # result[j]
            /\ probe.limit = NULL => left = {}
            /\ probe.limit # NULL =>
                   /\ Len(result) <= probe.limit[1]
                   /\ left # {} => Len(result) = probe.limit[1]
                   /\ \A e \in left, r \in Range(result) : r.count >= e.count

\* C13: fromRawData(width, height, data) fails exactly when data.length
\* differs from width * height * 4; otherwise it returns the same width,
\* height and data.
C13_LengthChecked ==
    probe.op = "fromRawData" =>
        /\ probe.threw <=> Len(probe.data) # probe.width * probe.height * 4
        /\ ~probe.threw =>
               probe.image = Some([width |-> probe.width,
                                   height |-> probe.height,
                                   data |-> probe.data])

\* A buffer of two pixels is accepted for a 2 x 1 image.
C13_Witness ==
    /\ probe.op = "fromRawData"
    /\ ~probe.threw
    /\ probe.width = 2 /\ probe.height = 1
    /\ Len(probe.data) = 8

\* The pixels of a buffer of whole pixels, as <<r, g, b, a>>.
PixelsOf(data) ==
    [n \in 1..(Len(data) \div 4) |-> SubSeq(data, 4 * n - 3, 4 * n)]

\* The pixels of alpha 255 that carry the packed color.
OpaqueWith(px, color) ==
    {n \in 1..Len(px) :
        px[n][4] = 255 /\ PackRgb(px[n][1], px[n][2], px[n][3]) = color}

RECURSIVE SumCounts(_)
SumCounts(p) == IF p = <<>> THEN 0 ELSE Head(p).count + SumCounts(Tail(p))

\* The packed colors of PixelRgbs, and one color no pixel carries.
ProbedColors == {PackRgb(rgb[1], rgb[2], rgb[3]) : rgb \in PixelRgbs} \cup {65280}

\* C14: for a buffer of fully opaque pixels, fromImageData counts each color
\* as often as pixels carry exactly that RGB value, length is the number of
\* distinct RGB values, the counts sum to the pixel count, and getColorCount
\* of a color not present is 0; with no background color, pixels of alpha 0
\* add to no count.
C14_CountsPixels ==
    probe.op = "fromImageData" =>
        LET px == PixelsOf(probe.image.data)
            opaque == {n \in 1..Len(px) : px[n][4] = 255}
            visible == {n \in 1..Len(px) : px[n][4] # 0}
        IN  /\ opaque = 1..Len(px) =>
                   /\ \A c \in ProbedColors :
                          getColorCount(palette, c)
                              = Cardinality(OpaqueWith(px, c))
                   /\ PaletteLength(palette)
                          = Cardinality({c \in ProbedColors :
                                            OpaqueWith(px, c) # {}})
                   /\ SumCounts(palette) = Len(px)
            /\ probe.backgroundColor = NULL =>
                   /\ SumCounts(palette) = Cardinality(visible)
                   /\ visible = opaque =>
                          \A c \in ProbedColors :
                              getColorCount(palette, c)
                                  = Cardinality(OpaqueWith(px, c))

\* Three opaque pixels of two colors: one color is counted twice.
C14_Witness ==
    /\ probe.op = "fromImageData"
    /\ LET px == PixelsOf(probe.image.data)
       IN  /\ Len(px) = 3
           /\ \A n \in 1..Len(px) : px[n][4] = 255
    /\ PaletteLength(palette) = 2
    /\ getColorCount(palette, 12062864) = 2
    /\ getColorCount(palette, 65280) = 0

(***************************************************************************)
(* Properties of the ranking under Spec.                                   *)
(***************************************************************************)
\* The priority of a palette color, and its place in the palette's
\* iteration order.
PriorityOf(color) ==
    Priority(convertToLab(color), getColorCount(palette, color))

PlaceOf(color) ==
    LET entries == PaletteIterator(palette)
    IN  CHOOSE i \in 1..Len(entries) : entries[i].color = color

\* C18: the ranking is a permutation of the palette's unique colors, ordered
\* by priority = chroma * lightnessWeight * sqrt(count) non-increasing,
\* colors of equal priority in palette iteration order; the palette alone
\* decides the ranking.
C18_RankedByPriority ==
    sortedColors # NULL =>
        LET ranking == sortedColors[1]
        IN  /\ Len(ranking) = PaletteLength(palette)
            /\ Range(ranking) = PaletteColors(palette)
            /\ \A i, j \in 1..Len(ranking) :
                   i < j =>
                       /\ PriorityOf(ranking[i]) >= PriorityOf(ranking[j])
                       /\ PriorityOf(ranking[i]) = PriorityOf(ranking[j]) =>
                              PlaceOf(ranking[i]) < PlaceOf(ranking[j])

\* A ranking of three colors that is not the palette's iteration order.
C18_Witness ==
    /\ sortedColors # NULL
    /\ Len(sortedColors[1]) = 3
    /\ \E i \in 1..3 : sortedColors[1][i] # PaletteIterator(palette)[i].color

(***************************************************************************)
(* Properties of the Lab cache under SpecCache.                            *)
(***************************************************************************)
\* C19: with caching enabled and maxCacheSize >= 1 the Lab cache never holds
\* more than maxCacheSize entries; with caching disabled it stays empty.
C19_CacheBounded ==
    /\ (options.useCache /\ options.maxCacheSize >= 1) =>
           Cardinality(DOMAIN labCache) <= options.maxCacheSize
    /\ ~options.useCache => labCache = EmptyCache

\* The cache is full, at two entries, after a miss.
C19_Witness ==
    /\ options.useCache
    /\ options.maxCacheSize = 2
    /\ Cardinality(DOMAIN labCache) = 2
    /\ probe.op = "getLabColor" /\ ~probe.hit

\* C20: a lookup that hits leaves the cache unchanged; a miss below
\* capacity keeps every earlier entry and adds the new one; a miss at
\* size >= maxCacheSize clears the cache first, so that it then holds the
\* new entry alone; the value returned is toLab(color) in every case.
C20_LookupFrame ==
    [][probe'.op = "getLabColor" =>
          LET color == probe'.color
              entry == color :> convertToLab(color)
          IN  /\ probe'.lab = convertToLab(color)
              /\ options.useCache =>
                     labCache' =
                         IF color \in DOMAIN labCache THEN labCache
                         ELSE IF Cardinality(DOMAIN labCache)
                                     < options.maxCacheSize
                         THEN entry @@ labCache
                         ELSE entry]_vars

\* A miss found the cache full at two entries and left one entry.
C20_Witness ==
    /\ probe.op = "getLabColor"
    /\ ~probe.hit
    /\ probe.sizeBefore = 2
    /\ options.maxCacheSize = 2
    /\ DOMAIN labCache = {probe.color}

(***************************************************************************)
(* Properties of clearCache under Spec.                                    *)
(***************************************************************************)
\* The ranking a full ranking pass computes from the palette.
RankingOf(p) ==
    RunAllBatches(DEFAULT_OPTIONS, PaletteIterator(p), 0, <<>>,
                  EmptyCache).sorted

\* C21: clearCache() empties the Lab cache and discards the cached ranking
\* and leaves the palette and the options unchanged; the next extract with
\* colorCount >= 1 recomputes the ranking from the palette.
C21_ClearCacheFrame ==
    /\ [][(last'.op = "clearCache" /\ last.op # "clearCache") =>
             /\ labCache' = EmptyCache
             /\ sortedColors' = NULL
             /\ palette' = palette
             /\ options' = options]_vars
    /\ [][(last.op = "clearCache" /\ last'.op = "extract"
              /\ last'.k >= 1) =>
             /\ last'.ranRanking
             /\ sortedColors' = Some(RankingOf(palette))]_vars

\* clearCache() was called on an instance that had ranked a palette of
\* several colors and cached their Lab values, and nothing was called since.
C21_Witness ==
    /\ last.op = "clearCache"
    /\ last.status = "resolved"
    /\ last.k >= 1
    /\ pending = <<>>
    /\ sortedColors = NULL
    /\ labCache = EmptyCache
    /\ options.useCache
    /\ PaletteLength(palette) >= 2

(***************************************************************************)
(* Properties of the suspension points under SpecReentrant.                *)
(***************************************************************************)
\* The ranking pass that has processed `from` entries runs on to its next
\* suspension: the yield after batchSize more entries, or the await of
\* initialize() when fewer are left.
RunsOnFrom(call, from) ==
    IF from + options.batchSize <= PaletteLength(palette)
    THEN call.pc = "yield" /\ call.index = from + options.batchSize
    ELSE call.pc = "await"

\* C22: the ranking pass yields once after every batchSize-th entry, that
\* is floor(n / batchSize) times for n entries, and nowhere else; the merge
\* pass has no suspension point: it runs from the state it starts in to its
\* return in one step, with no other call in between.
C22_YieldsPerBatch ==
    /\ [](\A i \in 1..Len(pending) :
             pending[i].pc = "yield" =>
                 /\ pending[i].index % options.batchSize = 0
                 /\ pending[i].index >= 1
                 /\ pending[i].index <= PaletteLength(palette))
    /\ [][/\ Len(pending') = Len(pending) + 1 =>
                /\ SubSeq(pending', 1, Len(pending)) = pending
                /\ RunsOnFrom(pending'[Len(pending')], 0)
          /\ Len(pending') = Len(pending) =>
                \A i \in 1..Len(pending) :
                    pending'[i] # pending[i] =>
                        /\ pending[i].pc = "yield"
                        /\ RunsOnFrom(pending'[i], pending[i].index)
          /\ Len(pending') < Len(pending) =>
                \E i \in 1..Len(pending) :
                    LET m == mergeColors(options, sortedColors,
                                         pending[i].k, labCache)
                    IN  /\ pending[i].pc = "await"
                        /\ pending' = Remove(pending, i)
                        /\ last'.op = "extract"
                        /\ last'.k = pending[i].k
                        /\ last'.result = m.result
                        /\ labCache' = m.cache
                        /\ sortedColors' = sortedColors]_vars

\* A ranking pass over three entries is suspended at its one yield, after
\* the second entry, while the merge pass of another call has run.
C22_Witness ==
    /\ options.batchSize = 2
    /\ PaletteLength(palette) = 3
    /\ \E i \in 1..Len(pending) :
           pending[i].pc = "yield" /\ pending[i].index = 2
    /\ last.op = "extract"
    /\ last.ranRanking
    /\ Len(last.result) >= 2

(***************************************************************************)
(* Properties of calls that are not awaited, under SpecOverlap.            *)
(***************************************************************************)
\* C23: an extract(k), k >= 1, during which clearCache() is called, at a
\* batch yield or between the end of its ranking pass and the start of its
\* merge pass, still resolves, with the sequence it returns when
\* clearCache() is not called.
C23_ResolvesDespiteClear ==
    (last.op = "extract" /\ last.k >= 1) =>
        /\ last.status = "resolved"
        /\ last.result = FreshExtract(options, palette, last.k)

(***************************************************************************)
(* Properties of re-entrant extract calls under SpecReentrant.             *)
(***************************************************************************)
\* C24: when a second extract call is started while an earlier one is
\* suspended at a batch yield of the ranking pass, both calls resolve, each
\* with the sequence it returns when the calls are run one after the other.
C24_ReentrantSameResult ==
    last.op = "extract" =>
        /\ last.status = "resolved"
        /\ last.result = FreshExtract(options, palette, last.k)

\* Two ranking passes ran side by side, the second started at a yield of
\* the first; both calls have settled, the later with several colors.
C24_Witness ==
    /\ initCount = 2
    /\ pending = <<>>
    /\ Resolved
    /\ last.ranRanking
    /\ Len(last.result) >= 2

(***************************************************************************)
(* The result against the ranking, under Spec.                             *)
(***************************************************************************)
\* s is t with some elements left out, the others in the order of t.
RECURSIVE IsSubsequence(_, _)
IsSubsequence(s, t) ==
    IF s = <<>> THEN TRUE
    ELSE IF t = <<>> THEN FALSE
    ELSE IF Head(s) = Head(t) THEN IsSubsequence(Tail(s), Tail(t))
    ELSE IsSubsequence(s, Tail(t))

\* C25: the result of extract(k), k >= 1, is a subsequence of the salience
\* ranking, and for a non-empty palette its first element is the top-ranked
\* color, whatever k is.
C25_SubsequenceOfRanking ==
    (Resolved /\ last.k >= 1) =>
        /\ IsSubsequence(last.result, RankingOf(palette))
        /\ PaletteLength(palette) >= 1 =>
               /\ last.result # <<>>
               /\ last.result[1] = RankingOf(palette)[1]

\* A result of two colors that skips the second-ranked color.
C25_Witness ==
    /\ Resolved
    /\ PaletteLength(palette) = 3
    /\ last.result = <<RankingOf(palette)[1], RankingOf(palette)[3]>>

(***************************************************************************)
(* The distance short-circuit, under SpecMerge.                            *)
(***************************************************************************)
\* C26: two colors with the same grid bucket key differ by less than
\* gridSize = 20 in L, so in the merge pass the |deltaL| > 50 short-circuit
\* of calculateDeltaE is never taken: every distance compared against
\* maxDelta is the plain Euclidean Lab distance, and a candidate is judged
\* only against representatives of its own bucket.
C26_ShortCircuitNeverTaken ==
    [][(probe.op = "mergeColors" /\ probe.pc = "loop"
           /\ probe'.i = probe.i + 1) =>
          LET candidate == probe.colors[probe.i + 1]
              gridKey == getGridKey(convertToLab(candidate))
              nearbyIndices == IF gridKey \in DOMAIN probe.spatialGrid
                               THEN probe.spatialGrid[gridKey] ELSE <<>>
          IN  \A n \in 1..Len(nearbyIndices) :
                  LET representative == probe.result[nearbyIndices[n] + 1]
                      labColor == probe.labColors[nearbyIndices[n] + 1]
                  IN  /\ labColor = convertToLab(representative)
                      /\ SameBucket(candidate, representative)
                      /\ Abs(labColor.L - convertToLab(candidate).L)
                             < gridSize * 100
                      /\ calculateDeltaE(convertToLab(candidate), labColor)
                             = LabDistance2(candidate, representative)]_vars

\* The second candidate shares the bucket of the first: it was compared
\* with it and accepted.
C26_Witness ==
    /\ MergeLooped
    /\ probe.i = 2
    /\ Len(probe.result) = 2
    /\ SameBucket(probe.colors[1], probe.colors[2])

====
